---- MODULE Spec2Model ----
(***************************************************************************)
(* Model of the ESP32 NILM edge agent, src/sketch_sep8b/sketch_sep8b.ino:  *)
(* setup(), loop(), updateDisplay(), displayError() and                    *)
(* sendDataToServer().  The sketch is single-threaded; the only            *)
(* asynchronous parties are the WiFi stack (the value WiFi.status()        *)
(* returns changes behind the sketch's back), the meter (readings) and the *)
(* HTTP server (response codes).  Every read of WiFi.status() is a step of *)
(* its own, so the link may change between any two reads.                  *)
(*                                                                         *)
(* Time is millis() in milliseconds.  Only delay() and the blocking POST   *)
(* advance it.  Power is in whole watts.                                   *)
(***************************************************************************)
EXTENDS Integers, Sequences, FiniteSets, TLC

\* ---------------------------------------------------------------- bounds
\* The clock stops advancing at MaxTime (ms).
MaxTime == 14000
\* The same for the runs with a link that never drops.
MaxTimeStable == 23000

\* ------------------------------------------------------ program constants
powerThreshold == 20
saveInterval == 10000
displayInterval == 2000
NumDisplayStates == 5
MaxSetupRetries == 20
MaxReconnectRetries == 10
SplashDelay == 2000
PollDelay == 500
LoopDelay == 1000
HTTP_CODE_UNAUTHORIZED == 401

\* ------------------------------------------------------ environment inputs
\* Power readings of a valid sample (W): differences 0, 1, 20 (= threshold)
\* and 21 (threshold + 1) all occur.
Powers == {0, 20, 21}
\* Values http.POST can return: an HTTP status, or a negative HTTPClient
\* error (-1 = HTTPC_ERROR_CONNECTION_REFUSED) when there is no response.
HttpCodes == {200, 401, 500, -1}
NoResponseCodes == {-1}
\* Time the blocking POST takes (ms).
PostDurations == {0, 500}

VARIABLES
    pc,                 \* position of the sketch
    now,                \* millis()
    wifiConnected,      \* WiFi.status() == WL_CONNECTED
    wifiRetries,        \* setup(): int wifiRetries
    power,              \* loop(): float power of the sample being processed
    prevPower,
    lastSaveTime,
    lastDisplayChange,
    displayState,
    dataPointsSent,
    eventsDetected,
    failedRequests,
    retries,            \* sendDataToServer(): int retries
    sendType,           \* "type" field of the data being sent
    sendResult,         \* value sendDataToServer returned
    httpResponseCode,   \* sendDataToServer(): int httpResponseCode (0: none yet)
    screen,             \* what the OLED shows
    eventSends,         \* history: calls of sendDataToServer with type "event"
    periodicSends,      \* history: calls of sendDataToServer with type "periodic"
    posts,              \* history: POSTs issued by the current/last call
    sawLinkUp,          \* history: some WiFi.status() read of the current/last call saw the link up
    failedAtCall,       \* history: failedRequests when the current/last call started
    sentAtCall,         \* history: dataPointsSent when the current/last call started
    lastSample,         \* history: power of the latest valid sample (0: none yet)
    horizon,            \* the time (ms) at which the model's clock stops
    iterSends           \* history: calls of sendDataToServer in the current iteration

vars == <<pc, now, wifiConnected, wifiRetries, power, prevPower, lastSaveTime,
          lastDisplayChange, displayState, dataPointsSent, eventsDetected,
          failedRequests, retries, sendType, sendResult, httpResponseCode,
          screen, eventSends, periodicSends, posts, sawLinkUp, failedAtCall,
          sentAtCall, lastSample, horizon, iterSends>>

counters == <<dataPointsSent, eventsDetected, failedRequests>>
timers == <<lastSaveTime, lastDisplayChange, displayState>>
sendVars == <<retries, sendType, sendResult, httpResponseCode, posts, sawLinkUp,
              failedAtCall, sentAtCall>>
history == <<eventSends, periodicSends, lastSample>>

Abs(x) == IF x > 0 THEN x ELSE -x

\* ------------------------------------------------------------------ Init
\* The globals as initialised at lines 36-50, before setup() runs.
Boot ==
    /\ pc = "setup"
    /\ now = 0
    /\ wifiRetries = 0
    /\ power = 0
    /\ prevPower = 0
    /\ lastSaveTime = 0
    /\ lastDisplayChange = 0
    /\ displayState = 0
    /\ dataPointsSent = 0
    /\ eventsDetected = 0
    /\ failedRequests = 0
    /\ retries = 0
    /\ sendType = "none"
    /\ sendResult = FALSE
    /\ httpResponseCode = 0
    /\ screen = "blank"
    /\ eventSends = 0
    /\ periodicSends = 0
    /\ posts = 0
    /\ sawLinkUp = FALSE
    /\ failedAtCall = 0
    /\ sentAtCall = 0
    /\ lastSample = 0
    /\ iterSends = 0

\* The link is down until WiFi.begin (line 80) has associated.
Init ==
    /\ Boot
    /\ wifiConnected = FALSE
    /\ horizon = MaxTime

\* ----------------------------------------------------------- environment
\* The WiFi stack runs beside the sketch: the link comes up or goes down.
WiFiEvent ==
    /\ wifiConnected' = ~wifiConnected
    /\ UNCHANGED <<pc, now, wifiRetries, power, prevPower, timers, counters,
                   sendVars, screen, history, horizon, iterSends>>

\* ----------------------------------------------------------------- setup
\* setup(), lines 55-84: display.begin; on failure spin forever.
SetupDisplay(ok) ==
    /\ pc = "setup"
    /\ IF ok
         THEN /\ now + SplashDelay <= horizon
              /\ now' = now + SplashDelay
              /\ screen' = "Connecting to WiFi"
              /\ pc' = "setup_wifi"
         ELSE /\ pc' = "halt_display"
              /\ UNCHANGED <<now, screen>>
    /\ wifiRetries' = 0
    /\ UNCHANGED <<wifiConnected, power, prevPower, timers, counters,
                   sendVars, history, horizon, iterSends>>

\* setup(), lines 88-94: one evaluation of the while condition.
SetupWiFiPoll ==
    /\ pc = "setup_wifi"
    /\ IF ~wifiConnected /\ wifiRetries < MaxSetupRetries
         THEN /\ now + PollDelay <= horizon
              /\ now' = now + PollDelay
              /\ wifiRetries' = wifiRetries + 1
              /\ pc' = pc
         ELSE /\ pc' = "setup_wifi_check"
              /\ UNCHANGED <<now, wifiRetries>>
    /\ UNCHANGED <<wifiConnected, power, prevPower, timers, counters,
                   sendVars, screen, history, horizon, iterSends>>

\* Mutant: setup() carries on without a link.
WiFiFailed_never(connected) == FALSE

\* setup(), line 96: the condition under which setup() stops for good.
WiFiFailed(connected) == ~connected

\* setup(), lines 96-122: the check after the loop; when setup() returns,
\* wifiRetries goes out of scope.
SetupWiFiCheck ==
    /\ pc = "setup_wifi_check"
    /\ IF WiFiFailed(wifiConnected)
         THEN /\ screen' = "WiFi connection failed!"
              /\ pc' = "halt_wifi"
              /\ UNCHANGED <<now, wifiRetries>>
         ELSE /\ now + SplashDelay <= horizon
              /\ now' = now + SplashDelay
              /\ screen' = "WiFi connected"
              /\ pc' = "loop"
              /\ wifiRetries' = 0
    /\ UNCHANGED <<wifiConnected, power, prevPower, timers, counters,
                   sendVars, history, horizon, iterSends>>

\* setup(), line 103: while(1) delay(1000).
HaltWiFi ==
    /\ pc = "halt_wifi"
    /\ now + LoopDelay <= horizon
    /\ now' = now + LoopDelay
    /\ UNCHANGED <<pc, wifiConnected, wifiRetries, power, prevPower, timers,
                   counters, sendVars, screen, history, horizon, iterSends>>

\* ------------------------------------------------------------- rendering
\* Mutant: the comparison of line 176 made non-strict.
DisplayDue_ge(t, last) == t - last >= displayInterval

\* updateDisplay(), line 176: the view is due to change.
DisplayDue(t, last) == t - last > displayInterval

\* updateDisplay(), line 177.
NextDisplayState(s) == (s + 1) % NumDisplayStates

\* updateDisplay(), lines 174-250.
updateDisplay ==
    /\ displayState' = IF DisplayDue(now, lastDisplayChange)
                         THEN NextDisplayState(displayState)
                         ELSE displayState
    /\ lastDisplayChange' = IF DisplayDue(now, lastDisplayChange)
                              THEN now
                              ELSE lastDisplayChange
    /\ screen' = "view"

\* displayError(), lines 252-262.
displayError(errorMessage) == screen' = errorMessage

\* ------------------------------------------------------------------ loop
\* Mutant: the comparison of line 154 made non-strict.
EventFires_ge(p, prev) == Abs(p - prev) >= powerThreshold

\* loop(), line 154: abs(power - prevPower) > powerThreshold.
EventFires(p, prev) == Abs(p - prev) > powerThreshold

\* Mutant: an event is counted only once it has been delivered.
CountEvent_none(n) == n

\* loop(), line 156: eventsDetected++.
CountEvent(n) == n + 1

\* Mutant: prevPower is left alone at the end of the iteration.
NextPrevPower_keep(p, prev) == prev

\* loop(), line 170: prevPower = power.
NextPrevPower(p, prev) == p

\* Mutant: lastSaveTime is set only when the periodic send succeeded.
NextSaveTime_onSuccess(ok, t, last) == IF ok THEN t ELSE last

\* loop(), line 167: lastSaveTime = millis(), outside the if of line 164.
NextSaveTime(ok, t, last) == t

\* loop(), line 162: millis() - lastSaveTime > saveInterval.
PeriodicDue(t, last) == t - last > saveInterval

\* The call sendDataToServer(data) with data of the given type: entry state
\* of the callee.
CallSend(type) ==
    /\ pc' = "send_begin"
    /\ sendType' = type
    /\ retries' = 0
    /\ httpResponseCode' = 0
    /\ sendResult' = FALSE
    /\ posts' = 0
    /\ sawLinkUp' = FALSE
    /\ failedAtCall' = failedRequests
    /\ sentAtCall' = dataPointsSent
    /\ eventSends' = IF type = "event" THEN eventSends + 1 ELSE eventSends
    /\ periodicSends' = IF type = "periodic" THEN periodicSends + 1 ELSE periodicSends
    /\ iterSends' = iterSends + 1

\* The callee's frame is gone once the caller has used the returned value.
EndSend ==
    /\ sendType' = "none"
    /\ retries' = 0
    /\ httpResponseCode' = 0
    /\ sendResult' = FALSE
    /\ posts' = 0
    /\ sawLinkUp' = FALSE
    /\ failedAtCall' = 0
    /\ sentAtCall' = 0

\* Mutant: a rejected reading is charged to the failure counter.
ReadInvalid_budget ==
    /\ pc = "loop"
    /\ now + LoopDelay <= horizon
    /\ displayError("PZEM Read Error")
    /\ failedRequests' = failedRequests + 1
    /\ now' = now + LoopDelay
    /\ UNCHANGED <<pc, wifiConnected, wifiRetries, power, prevPower, timers,
                   dataPointsSent, eventsDetected, sendVars, history, horizon,
                   iterSends>>

\* loop(), lines 126-139 with an undefined voltage or current.
ReadInvalid ==
    /\ pc = "loop"
    /\ now + LoopDelay <= horizon
    /\ displayError("PZEM Read Error")
    /\ now' = now + LoopDelay
    /\ UNCHANGED <<pc, wifiConnected, wifiRetries, power, prevPower, timers,
                   counters, sendVars, history, horizon, iterSends>>

\* Mutant: a display refresh that changes the view also restarts the
\* periodic timer.
ReadValid_redraw(p) ==
    /\ pc = "loop"
    /\ power' = p
    /\ lastSample' = p
    /\ updateDisplay
    /\ lastSaveTime' = IF DisplayDue(now, lastDisplayChange)
                         THEN now
                         ELSE lastSaveTime
    /\ IF EventFires(p, prevPower)
         THEN /\ eventsDetected' = CountEvent(eventsDetected)
              /\ CallSend("event")
         ELSE /\ pc' = "periodic"
              /\ UNCHANGED <<eventsDetected, sendVars, eventSends, periodicSends,
                             iterSends>>
    /\ UNCHANGED <<now, wifiConnected, wifiRetries, prevPower,
                   dataPointsSent, failedRequests, horizon>>

\* loop(), lines 126-159 with a valid sample of power p: display refresh,
\* then event detection.
ReadValid(p) ==
    /\ pc = "loop"
    /\ power' = p
    /\ lastSample' = p
    /\ updateDisplay
    /\ IF EventFires(p, prevPower)
         THEN /\ eventsDetected' = CountEvent(eventsDetected)
              /\ CallSend("event")
         ELSE /\ pc' = "periodic"
              /\ UNCHANGED <<eventsDetected, sendVars, eventSends, periodicSends,
                             iterSends>>
    /\ UNCHANGED <<now, wifiConnected, wifiRetries, prevPower, lastSaveTime,
                   dataPointsSent, failedRequests, horizon>>

\* loop(), line 158: the event send has returned; its result is dropped.
EventSendReturn ==
    /\ pc = "send_ret"
    /\ sendType = "event"
    /\ pc' = "periodic"
    /\ EndSend
    /\ UNCHANGED <<now, wifiConnected, wifiRetries, power, prevPower, timers,
                   counters, screen, history, horizon, iterSends>>

\* loop(), lines 162-171 when the interval has not elapsed: prevPower and
\* the delay, after which the sample goes out of scope; when it has: the call
\* of the periodic send.
PeriodicCheck ==
    /\ pc = "periodic"
    /\ IF PeriodicDue(now, lastSaveTime)
         THEN /\ CallSend("periodic")
              /\ UNCHANGED <<now, power, prevPower, lastSample>>
         ELSE /\ now + LoopDelay <= horizon
              /\ prevPower' = NextPrevPower(power, prevPower)
              /\ power' = 0
              /\ now' = now + LoopDelay
              /\ pc' = "loop"
              /\ iterSends' = 0
              /\ UNCHANGED <<sendVars, history>>
    /\ UNCHANGED <<wifiConnected, wifiRetries, timers, counters, screen,
                   horizon>>

\* Mutant: the increment of line 165 left out.
CountSent_none(ok, n) == n

\* loop(), lines 164-166: dataPointsSent after a periodic send returned ok.
CountSent(ok, n) == IF ok THEN n + 1 ELSE n

\* Mutant: a periodic send that failed is repeated at once, in the same
\* iteration.
PeriodicSendReturn_retry ==
    /\ pc = "send_ret"
    /\ sendType = "periodic"
    /\ IF sendResult
         THEN /\ now + LoopDelay <= horizon
              /\ dataPointsSent' = dataPointsSent + 1
              /\ lastSaveTime' = now
              /\ prevPower' = power
              /\ power' = 0
              /\ now' = now + LoopDelay
              /\ pc' = "loop"
              /\ iterSends' = 0
         ELSE /\ pc' = "periodic"
              /\ UNCHANGED <<dataPointsSent, lastSaveTime, prevPower, power,
                             now, iterSends>>
    /\ EndSend
    /\ UNCHANGED <<wifiConnected, wifiRetries, lastDisplayChange,
                   displayState, eventsDetected, failedRequests, screen,
                   history, horizon>>

\* loop(), lines 164-171: the periodic send has returned.
PeriodicSendReturn ==
    /\ pc = "send_ret"
    /\ sendType = "periodic"
    /\ now + LoopDelay <= horizon
    /\ dataPointsSent' = CountSent(sendResult, dataPointsSent)
    /\ lastSaveTime' = NextSaveTime(sendResult, now, lastSaveTime)
    /\ prevPower' = NextPrevPower(power, prevPower)
    /\ power' = 0
    /\ now' = now + LoopDelay
    /\ pc' = "loop"
    /\ iterSends' = 0
    /\ EndSend
    /\ UNCHANGED <<wifiConnected, wifiRetries, lastDisplayChange,
                   displayState, eventsDetected, failedRequests, screen,
                   history, horizon>>

\* ------------------------------------------------------ sendDataToServer
\* sendDataToServer(), lines 280-288: the first read of WiFi.status().
SendBegin ==
    /\ pc = "send_begin"
    /\ sawLinkUp' = wifiConnected
    /\ IF wifiConnected
         THEN /\ pc' = "send_post"
              /\ UNCHANGED screen
         ELSE /\ displayError("WiFi Disconnected")
              /\ pc' = "send_poll"
    /\ retries' = 0
    /\ UNCHANGED <<now, wifiConnected, wifiRetries, power, prevPower, timers,
                   counters, sendType, sendResult, httpResponseCode, posts,
                   failedAtCall, sentAtCall, history, horizon, iterSends>>

\* Mutant: the reconnect loop of line 289 without its bound.
RetryAllowed_always(r) == TRUE

\* Mutant: the reconnect loop of line 289 gives up one round early.
RetryAllowed_short(r) == r < MaxReconnectRetries - 1

\* sendDataToServer(), line 289: the reconnect loop goes round once more.
RetryAllowed(r) == r < MaxReconnectRetries

\* sendDataToServer(), lines 289-293: one evaluation of the while condition.
SendPoll ==
    /\ pc = "send_poll"
    /\ sawLinkUp' = (sawLinkUp \/ wifiConnected)
    /\ IF ~wifiConnected /\ RetryAllowed(retries)
         THEN /\ now + PollDelay <= horizon
              /\ now' = now + PollDelay
              /\ retries' = retries + 1
              /\ pc' = pc
         ELSE /\ pc' = "send_recheck"
              /\ UNCHANGED <<now, retries>>
    /\ UNCHANGED <<wifiConnected, wifiRetries, power, prevPower, timers,
                   counters, sendType, sendResult, httpResponseCode, posts,
                   failedAtCall, sentAtCall, screen, history, horizon, iterSends>>

\* Mutant: line 297 written as a decrement.
CountAbort_dec(n) == n - 1

\* sendDataToServer(), line 297: failedRequests++ when reconnection failed.
CountAbort(n) == n + 1

\* Mutant: a send aborted for lack of connectivity stops the device, as a
\* link that is down at the end of setup() does.
SendRecheck_fatal ==
    /\ pc = "send_recheck"
    /\ sawLinkUp' = (sawLinkUp \/ wifiConnected)
    /\ IF ~wifiConnected
         THEN /\ failedRequests' = failedRequests + 1
              /\ sendResult' = FALSE
              /\ pc' = "halt_wifi"
         ELSE /\ pc' = "send_post"
              /\ UNCHANGED <<failedRequests, sendResult>>
    /\ UNCHANGED <<now, wifiConnected, wifiRetries, power, prevPower, timers,
                   dataPointsSent, eventsDetected, retries, sendType,
                   httpResponseCode, posts, failedAtCall, sentAtCall, screen,
                   history, horizon, iterSends>>

\* sendDataToServer(), lines 295-302: the check after the reconnect loop.
SendRecheck ==
    /\ pc = "send_recheck"
    /\ sawLinkUp' = (sawLinkUp \/ wifiConnected)
    /\ IF ~wifiConnected
         THEN /\ failedRequests' = CountAbort(failedRequests)
              /\ sendResult' = FALSE
              /\ pc' = "send_ret"
         ELSE /\ pc' = "send_post"
              /\ UNCHANGED <<failedRequests, sendResult>>
    /\ UNCHANGED <<now, wifiConnected, wifiRetries, power, prevPower, timers,
                   dataPointsSent, eventsDetected, retries, sendType,
                   httpResponseCode, posts, failedAtCall, sentAtCall, screen,
                   history, horizon, iterSends>>

\* sendDataToServer(), line 311: the branch taken on the POST's result.
PostOk(code) == code > 0

\* Mutant: the increment of line 323 left out.
CountFailure_none(n) == n

\* sendDataToServer(), line 323: failedRequests++ in the else branch.
CountFailure(n) == n + 1

\* What http.POST can return: any code while the link is up, no response
\* at all when the link has gone down since it was last read.
PostResults == IF wifiConnected THEN HttpCodes ELSE NoResponseCodes

\* sendDataToServer(), lines 304-326: the POST and the classification of
\* its result.
Post(code, dur) ==
    /\ pc = "send_post"
    /\ code \in PostResults
    /\ now + dur <= horizon
    /\ now' = now + dur
    /\ posts' = posts + 1
    /\ httpResponseCode' = code
    /\ IF PostOk(code)
         THEN /\ sendResult' = TRUE
              /\ UNCHANGED <<failedRequests, screen>>
         ELSE /\ IF code = HTTP_CODE_UNAUTHORIZED
                   THEN displayError("API Key Error")
                   ELSE UNCHANGED screen
              /\ failedRequests' = CountFailure(failedRequests)
              /\ sendResult' = FALSE
    /\ pc' = "send_ret"
    /\ UNCHANGED <<wifiConnected, wifiRetries, power, prevPower, timers,
                   dataPointsSent, eventsDetected, retries, sendType,
                   sawLinkUp, failedAtCall, sentAtCall, history, horizon, iterSends>>

\* --------------------------------------------------------- specification
Next ==
    \/ WiFiEvent
    \/ \E ok \in BOOLEAN : SetupDisplay(ok)
    \/ SetupWiFiPoll
    \/ SetupWiFiCheck
    \/ HaltWiFi
    \/ ReadInvalid
    \/ \E p \in Powers : ReadValid(p)
    \/ EventSendReturn
    \/ PeriodicCheck
    \/ PeriodicSendReturn
    \/ SendBegin
    \/ SendPoll
    \/ SendRecheck
    \/ \E code \in HttpCodes, dur \in PostDurations : Post(code, dur)

Spec == Init /\ [][Next]_vars

\* The same sketch in the most favourable environment: the link is up from
\* the start and never drops, every reading is valid and the server answers
\* every POST with 200.
InitStable ==
    /\ Boot
    /\ wifiConnected = TRUE
    /\ horizon = MaxTimeStable

NextStable ==
    \/ \E ok \in BOOLEAN : SetupDisplay(ok)
    \/ SetupWiFiPoll
    \/ SetupWiFiCheck
    \/ \E p \in Powers : ReadValid(p)
    \/ EventSendReturn
    \/ PeriodicCheck
    \/ PeriodicSendReturn
    \/ SendBegin
    \/ \E dur \in PostDurations : Post(200, dur)

SpecStable == InitStable /\ [][NextStable]_vars

\* The same sketch with a link that is up from the start and never drops,
\* while readings may be rejected and the server may answer anything or not
\* at all; every exchange with the server takes 500 ms.
NextLinkUp ==
    \/ \E ok \in BOOLEAN : SetupDisplay(ok)
    \/ SetupWiFiPoll
    \/ SetupWiFiCheck
    \/ ReadInvalid
    \/ \E p \in Powers : ReadValid(p)
    \/ EventSendReturn
    \/ PeriodicCheck
    \/ PeriodicSendReturn
    \/ SendBegin
    \/ \E code \in HttpCodes : Post(code, 500)

SpecLinkUp == InitStable /\ [][NextLinkUp]_vars

TypeOK ==
    /\ pc \in {"setup", "setup_wifi", "setup_wifi_check", "halt_display",
               "halt_wifi", "loop", "periodic", "send_begin", "send_poll",
               "send_recheck", "send_post", "send_ret"}
    /\ now \in 0..horizon
    /\ wifiConnected \in BOOLEAN
    /\ wifiRetries \in 0..MaxSetupRetries
    /\ power \in Powers /\ prevPower \in Powers
    /\ lastSaveTime \in 0..now /\ lastDisplayChange \in 0..now
    /\ displayState \in 0..(NumDisplayStates - 1)
    /\ dataPointsSent \in Nat /\ eventsDetected \in Nat /\ failedRequests \in Nat
    /\ retries \in 0..MaxReconnectRetries
    /\ sendType \in {"none", "event", "periodic"}
    /\ sendResult \in BOOLEAN
    /\ httpResponseCode \in HttpCodes \cup {0}
    /\ iterSends \in Nat

\* ================================================================ claims
Halted == {"halt_display", "halt_wifi"}
LoopPcs == {"loop", "periodic", "send_begin", "send_poll", "send_recheck",
            "send_post", "send_ret"}
\* The HTTP success range of the endpoint's contract (2xx).
SuccessCodes == 200..299
\* A step in which loop() takes a valid sample (lines 126-159).
TakesSample == pc = "loop" /\ pc' # "loop"
\* A step in which the caller consumes the value a send returned.
SendReturns == pc = "send_ret" /\ pc' # "send_ret"

\* C1: for every valid sample, an event fires (eventsDetected + 1 and one
\* send tagged "event" attempted) if and only if the sample's power differs
\* from the power of the previous valid sample (0 before the first) by more
\* than powerThreshold; at a difference equal to the threshold or smaller
\* nothing is counted and no event send is attempted.
C1_EventIffAboveThreshold ==
    [][TakesSample =>
         IF Abs(lastSample' - lastSample) > powerThreshold
           THEN /\ eventsDetected' = eventsDetected + 1
                /\ eventSends' = eventSends + 1
                /\ pc' = "send_begin"
                /\ sendType' = "event"
           ELSE /\ eventsDetected' = eventsDetected
                /\ eventSends' = eventSends
                /\ pc' = "periodic"]_vars

\* C1 witness: one event has fired, and the sample being processed differs
\* from its predecessor by exactly the threshold without firing a second.
C1_Witness ==
    /\ pc = "periodic"
    /\ Abs(power - prevPower) = powerThreshold
    /\ eventsDetected = 1
    /\ eventSends = 1

\* C2 (as claimed): every send answered with a successful status, event or
\* periodic, returns success and increments dataPointsSent by exactly 1.
C2_EverySuccessCounted ==
    [][(SendReturns /\ httpResponseCode \in SuccessCodes) =>
         (sendResult /\ dataPointsSent' = sentAtCall + 1)]_vars

\* C2 (amended): every send answered with a successful status returns
\* success; dataPointsSent goes up by exactly 1 when the send is tagged
\* "periodic" and is left alone when it is tagged "event".
C2_PeriodicSuccessCounted ==
    [][(SendReturns /\ httpResponseCode \in SuccessCodes) =>
         /\ sendResult
         /\ dataPointsSent = sentAtCall
         /\ dataPointsSent' = IF sendType = "periodic"
                                THEN sentAtCall + 1
                                ELSE sentAtCall]_vars

\* C2 witness: a periodic send answered 200 is about to be counted, after an
\* event send has been through the same path.
C2_Witness ==
    /\ pc = "send_ret"
    /\ sendType = "periodic"
    /\ httpResponseCode = 200
    /\ sendResult
    /\ eventSends > 0

\* C3: a send answered 401 shows the authentication-error overlay, leaves
\* failedRequests alone, is not reported as delivered and issues one POST only.
C3_AuthFailureIsDistinct ==
    (pc = "send_ret" /\ httpResponseCode = HTTP_CODE_UNAUTHORIZED) =>
        /\ screen = "API Key Error"
        /\ failedRequests = failedAtCall
        /\ ~sendResult
        /\ posts = 1

\* C4: a send answered with a status that is neither a success nor 401
\* (such as 500) increments failedRequests by exactly 1 and returns failure.
C4_ErrorStatusCounted ==
    (/\ pc = "send_ret"
     /\ httpResponseCode > 0
     /\ httpResponseCode \notin SuccessCodes
     /\ httpResponseCode # HTTP_CODE_UNAUTHORIZED) =>
        /\ failedRequests = failedAtCall + 1
        /\ ~sendResult

\* C5: a POST that fails at transport level (a non-positive result code)
\* makes the call increment failedRequests by exactly 1 and return failure
\* after that single POST; control goes back to loop(), which counts nothing
\* as sent, so only a later trigger sends again.
C5_TransportFailureCountedOnce ==
    [][(SendReturns /\ posts > 0 /\ httpResponseCode <= 0) =>
         /\ failedRequests = failedAtCall + 1
         /\ ~sendResult
         /\ posts = 1
         /\ pc' \in {"periodic", "loop"}
         /\ dataPointsSent' = sentAtCall]_vars

\* C5 witness: with the link up, a POST has come back without a response.
C5_Witness ==
    /\ pc = "send_ret"
    /\ wifiConnected
    /\ sawLinkUp
    /\ httpResponseCode = -1
    /\ failedRequests = failedAtCall + 1

C7_CountersMonotonic ==
    [][/\ dataPointsSent' >= dataPointsSent
       /\ eventsDetected' >= eventsDetected
       /\ failedRequests' >= failedRequests]_vars

\* C7 witness: each of the three counters has been incremented.
C7_Witness ==
    /\ dataPointsSent > 0
    /\ eventsDetected > 0
    /\ failedRequests > 0

\* C8: under stable connectivity every window at least saveInterval long
\* holds a periodic transmission: once a periodic send has returned (at
\* lastSaveTime), loop() is never found between sends with more than
\* saveInterval gone by.
C8_PeriodicInEveryWindow ==
    (pc = "loop" /\ lastSaveTime > 0) => now - lastSaveTime <= saveInterval

C10_OnlyDisplayFailureHalts ==
    pc \in Halted => pc = "halt_display"

\* C10 (amended): the device halts for good in exactly two cases, the
\* failure of display.begin and the link still being down when the startup
\* wait ends; in both setup() never reaches loop(), otherwise it does, and
\* nothing that happens in loop() halts the device.
C10_HaltsOnDisplayOrWiFiFailure ==
    [][/\ (pc' \in Halted /\ pc \notin Halted) =>
              \/ pc = "setup" /\ pc' = "halt_display"
              \/ pc = "setup_wifi_check" /\ ~wifiConnected /\ pc' = "halt_wifi"
       /\ (pc = "setup_wifi_check" /\ pc' # pc) =>
              pc' = IF wifiConnected THEN "loop" ELSE "halt_wifi"
       /\ pc \in Halted => pc' = pc
       /\ pc \in LoopPcs => pc' \in LoopPcs]_vars

\* C10 witness: setup() has stopped for good after 20 polls of a link that
\* never came up.
C10_Witness ==
    /\ pc = "halt_wifi"
    /\ wifiRetries = MaxSetupRetries
    /\ screen = "WiFi connection failed!"

\* A step in which loop() rejects the reading (lines 134-139): the iteration
\* ends where it began, one second later.
RejectsReading == pc = "loop" /\ pc' = "loop" /\ now' # now

\* C11: an iteration whose reading is undefined ends before the event check,
\* the periodic check and any send: prevPower, the three counters,
\* lastSaveTime and displayState keep their values and no send is started.
\* Rejections are not budgeted: whenever the loop is at its top, however many
\* readings were rejected before, a valid reading can be taken.
C11_RejectedReadingHasNoEffect ==
    /\ [][RejectsReading =>
            /\ UNCHANGED <<prevPower, counters, lastSaveTime, displayState,
                           lastDisplayChange>>
            /\ UNCHANGED <<eventSends, periodicSends, iterSends, sendType,
                           posts, lastSample>>]_vars
    /\ [](pc = "loop" => ENABLED (\E p \in Powers : ReadValid(p)))

\* C11 witness: a reading has just been rejected in a loop that had already
\* detected an event and holds a non-zero previous power.
C11_Witness ==
    /\ pc = "loop"
    /\ screen = "PZEM Read Error"
    /\ eventsDetected > 0
    /\ prevPower # 0

\* A step that ends an iteration in which a valid sample was processed
\* (lines 170-171).
EndsIteration == pc \in {"periodic", "send_ret"} /\ pc' = "loop"

\* C12: the step that ends an iteration which processed a valid sample sets
\* prevPower to that sample's power, whether or not an event fired and
\* whatever the event send and the periodic send returned; so at the top of
\* the loop prevPower is always the power of the latest valid sample.
C12_PrevPowerIsLastSample ==
    /\ [](pc = "loop" => prevPower = lastSample)
    /\ [](pc \in LoopPcs \ {"loop"} => power = lastSample)
    /\ [][EndsIteration => prevPower' = power]_vars

\* C12 witness: an iteration whose sample 21 fired an event, and whose send
\* failed, has ended.
C12_Witness ==
    /\ pc = "loop"
    /\ prevPower = 21
    /\ eventsDetected = 1
    /\ failedRequests = 1
    /\ dataPointsSent = 0

\* C13: every iteration during which the periodic interval is found elapsed
\* attempts one send tagged "periodic" with the most recent valid sample,
\* whether or not an event send was attempted in it and also when its
\* reading is rejected: no iteration ends with the interval elapsed unless
\* the periodic send of that iteration has just returned.
C13_PeriodicSendOnEveryElapse ==
    [][((RejectsReading \/ EndsIteration) /\ PeriodicDue(now, lastSaveTime)) =>
         /\ pc = "send_ret"
         /\ sendType = "periodic"
         /\ power = lastSample]_vars

\* The program points inside sendDataToServer (lines 279-327).
SendPcs == {"send_begin", "send_poll", "send_recheck", "send_post", "send_ret"}
\* Steps in which loop() calls sendDataToServer (lines 158 and 164).
CallsEventSend == eventSends' # eventSends
CallsPeriodicSend == periodicSends' # periodicSends

\* C14: sends are serialized in the order of the iteration. The event send
\* is called only by the step that takes the sample, after that step has
\* refreshed the display, and as the first send of the iteration; the
\* periodic send is called only at the periodic check, which is reached only
\* once the event send, if any, has returned; each call is made when no send
\* is in flight, both carry the sample of the iteration, and an iteration
\* makes at most two calls.
C14_SendsSerialized ==
    /\ [](sendType # "none" <=> pc \in SendPcs)
    /\ [](iterSends <= 2)
    /\ [][CallsEventSend =>
            /\ TakesSample
            /\ sendType = "none" /\ iterSends = 0
            /\ screen' = "view"
            /\ sendType' = "event" /\ eventSends' = eventSends + 1
            /\ periodicSends' = periodicSends
            /\ power' = lastSample']_vars
    /\ [][CallsPeriodicSend =>
            /\ pc = "periodic"
            /\ sendType = "none" /\ iterSends <= 1
            /\ sendType' = "periodic" /\ periodicSends' = periodicSends + 1
            /\ eventSends' = eventSends
            /\ power' = lastSample /\ lastSample' = lastSample]_vars
    /\ [][pc' = "periodic" =>
            \/ pc = "periodic"
            \/ pc = "loop" /\ iterSends' = 0
            \/ pc = "send_ret" /\ sendType = "event" /\ iterSends' = 1]_vars

\* C14 witness: the periodic send of an iteration is at its POST after the
\* event send of the same iteration has returned.
C14_Witness ==
    /\ pc = "send_post"
    /\ sendType = "periodic"
    /\ iterSends = 2

\* What displayError can put on the screen (lines 136, 282, 320).
ErrorScreens == {"PZEM Read Error", "WiFi Disconnected", "API Key Error"}

\* C15: the error overlay is rendered on every failure reported by sensor
\* acquisition or by the transmission client: a rejected reading leaves the
\* overlay on the screen, and whenever a send returns failure the overlay has
\* been rendered since the iteration refreshed the display.
C15_OverlayOnEveryFailure ==
    /\ [][RejectsReading => screen' \in ErrorScreens]_vars
    /\ []((pc = "send_ret" /\ ~sendResult) => screen \in ErrorScreens)

\* A step in which displayError is called (lines 136 and 282; the call of
\* line 320 would show "API Key Error").
RendersOverlay ==
    \/ RejectsReading
    \/ pc = "send_begin" /\ pc' = "send_poll"
    \/ screen' = "API Key Error"

\* C16: rendering touches nothing but the display. A step that calls
\* displayError changes neither displayState nor lastDisplayChange (nor
\* prevPower, lastSaveTime or a counter); the step that calls updateDisplay
\* leaves prevPower, lastSaveTime, dataPointsSent and failedRequests alone
\* and changes eventsDetected only by the event rule; and displayState and
\* lastDisplayChange change in no other step.
C16_RenderingHasNoSideEffect ==
    /\ [][RendersOverlay =>
            /\ screen' \in ErrorScreens
            /\ UNCHANGED <<displayState, lastDisplayChange>>
            /\ UNCHANGED <<prevPower, lastSaveTime, counters>>]_vars
    /\ [][TakesSample =>
            /\ screen' = "view"
            /\ UNCHANGED <<prevPower, lastSaveTime, dataPointsSent,
                           failedRequests>>
            /\ eventsDetected' = IF EventFires(lastSample', prevPower)
                                   THEN eventsDetected + 1
                                   ELSE eventsDetected]_vars
    /\ [][~TakesSample => UNCHANGED <<displayState, lastDisplayChange>>]_vars

\* C16 witness: the overlay of a link found down is on the screen while the
\* view index stands at 2, after an earlier periodic transmission.
C16_Witness ==
    /\ pc = "send_poll"
    /\ screen = "WiFi Disconnected"
    /\ displayState = 2
    /\ lastSaveTime > 0

\* A step of the program itself, as opposed to a change of the link.
ProgramStep == pc' # pc \/ now' # now \/ retries' # retries

\* The number of steps sendDataToServer has left at most before it returns.
SendRank ==
    CASE pc = "send_begin"   -> MaxReconnectRetries + 4
      [] pc = "send_poll"    -> MaxReconnectRetries + 3 - retries
      [] pc = "send_recheck" -> 2
      [] pc = "send_post"    -> 1
      [] OTHER               -> 0

LoopStep ==
    \/ ReadInvalid
    \/ \E p \in Powers : ReadValid(p)
    \/ EventSendReturn
    \/ PeriodicCheck
    \/ PeriodicSendReturn
    \/ SendBegin
    \/ SendPoll
    \/ SendRecheck
    \/ \E code \in HttpCodes, dur \in PostDurations : Post(code, dur)

\* The number of steps the current iteration has left at most before loop()
\* is entered again: an event send is followed by the periodic check and,
\* possibly, a periodic send.
IterRank ==
    CASE pc = "loop"         -> 0
      [] pc = "periodic"     -> MaxReconnectRetries + 6
      [] sendType = "event"  -> SendRank + MaxReconnectRetries + 7
      [] OTHER               -> SendRank + 1

\* A step in which a failure is reported: a rejected reading, or a send
\* that is aborted or fails.
ReportsFailure == RejectsReading \/ failedRequests' # failedRequests

\* C18: after setup() no failure is fatal. The control loop is never left
\* (no halt, no restart); in every state of the loop with time left on the
\* clock the program can take a step; every step inside an iteration brings
\* the next entry of loop() closer, so the iteration terminates and another
\* begins; and a step that reports a failure changes only failedRequests and
\* the screen, never prevPower, lastSaveTime, the display cycle,
\* dataPointsSent or eventsDetected.
C18_NoFailureIsFatal ==
    /\ [][(pc \in LoopPcs) => (pc' \in LoopPcs)]_vars
    /\ []((pc \in LoopPcs /\ now + LoopDelay <= horizon) => ENABLED LoopStep)
    /\ [][(pc \in LoopPcs \ {"loop"} /\ ProgramStep) => IterRank' < IterRank]_vars
    /\ [][ReportsFailure =>
            /\ pc' \in LoopPcs
            /\ failedRequests' \in {failedRequests, failedRequests + 1}
            /\ UNCHANGED <<prevPower, lastSaveTime, displayState,
                           lastDisplayChange, dataPointsSent,
                           eventsDetected>>]_vars

\* C18 witness: loop() is about to be entered again after a rejected reading
\* and at least two failed sends.
C18_Witness ==
    /\ pc = "loop"
    /\ failedRequests >= 2
    /\ screen = "PZEM Read Error"
    /\ eventsDetected >= 1

\* C19: eventsDetected counts detections, not deliveries. It changes only in
\* the step that calls the event send, by one, before the send has done
\* anything, and no later step takes the increment back: in every state it
\* equals the number of event sends attempted so far, whatever became of
\* them.
C19_EventsDetectedCountsAttempts ==
    /\ [](eventsDetected = eventSends)
    /\ [][eventsDetected' # eventsDetected =>
            /\ eventsDetected' = eventsDetected + 1
            /\ CallsEventSend
            /\ pc' = "send_begin" /\ posts' = 0]_vars

\* C19 witness: the second event send has been aborted for lack of
\* connectivity, and both events are counted.
C19_Witness ==
    /\ pc = "send_ret"
    /\ sendType = "event"
    /\ ~sendResult
    /\ posts = 0
    /\ eventsDetected = 2

\* A step in which loop() takes back the value of the periodic send
\* (lines 164-167).
PeriodicSendReturns == pc = "send_ret" /\ sendType = "periodic" /\ ProgramStep

\* C20: lastSaveTime is set to the current time when a periodic send
\* returns, whether it succeeded or failed, and changes in no other step
\* (not during an event send, not on a rejected reading); a periodic send is
\* called only when more than saveInterval has gone by since lastSaveTime,
\* that is since the previous periodic send returned, so a failed periodic
\* send is not repeated before a further full interval has passed.
C20_SaveTimeResetOnEveryAttempt ==
    /\ [][PeriodicSendReturns => lastSaveTime' = now]_vars
    /\ [][lastSaveTime' # lastSaveTime => PeriodicSendReturns]_vars
    /\ [][(RejectsReading \/ sendType = "event") =>
            lastSaveTime' = lastSaveTime]_vars
    /\ [][CallsPeriodicSend => now - lastSaveTime > saveInterval]_vars
    /\ []((pc \in SendPcs /\ sendType = "periodic" /\ periodicSends > 1) =>
            lastSaveTime > 0)

\* C20 witness: the second periodic send begins, more than saveInterval
\* after the first one returned failure.
C20_Witness ==
    /\ pc = "send_begin"
    /\ sendType = "periodic"
    /\ periodicSends = 2
    /\ dataPointsSent = 0
    /\ failedRequests >= 1
    /\ now - lastSaveTime > saveInterval

====
